---- MODULE Spec2Model ----
(***************************************************************************)
(* The Blaze parser (src/scripting/parser.rs): a recursive-descent parser  *)
(* over a token vector with a cursor (parser_position) and a diagnostic    *)
(* Context.  The parsing functions are operators over the Parser struct;   *)
(* the statement loop of Parser::parse is the state machine.               *)
(***************************************************************************)
EXTENDS Integers, Sequences, FiniteSets, TLC

VARIABLES tokens, parser_position, context, root, pc, result, printed

vars == <<tokens, parser_position, context, root, pc, result, printed>>

(***************************************************************************)
(* Bounds of the checked inputs.                                           *)
(***************************************************************************)
MaxLen == 3
MaxOperators == 2
MaxChain == 3
MaxParams == 2
MaxItems == 2
MaxStatements == 2
MaxLine == 1

(***************************************************************************)
(* Token types and the named sets of scripting/tokens.rs.                  *)
(***************************************************************************)
VARIABLE_ASSIGNMENT_TOKENS == {"Mut", "Fin"}

UNARY_OPERATOR_TOKENS == {"Increment", "Decrement", "Not", "Negate"}

BINARY_OPERATOR_TOKENS == {"Plus", "Minus", "Multiply", "Less"}

FORMULA_TOKENS ==
    {"Alphanumeric", "CharArray", "Number", "Null", "True", "False"}
        \cup UNARY_OPERATOR_TOKENS

Token(token_type, value, line, start) ==
    [token_type |-> token_type, value |-> value, line |-> line, start |-> start]

is_type(token, token_type) == token.token_type = token_type

(***************************************************************************)
(* Option and Result values.  None is <<>>, Some(x) is <<x>>.              *)
(***************************************************************************)
None == <<>>
Some(x) == <<x>>
is_some(o) == Len(o) = 1
unwrap(o) == o[1]

NoToken == Token("", "", 0, 0)
NoError == [message |-> "", expected |-> {}, line |-> 0, position |-> 0]

Ok(self, value) == [kind |-> "Ok", self |-> self, value |-> value, err |-> NoError]
Err(self, err) == [kind |-> "Err", self |-> self, value |-> None, err |-> err]
is_ok(r) == r.kind = "Ok"
is_err(r) == r.kind = "Err"

(***************************************************************************)
(* The Parser struct.  panicked records that an unwrap() failed or the     *)
(* unsigned cursor was decremented below zero: the thread has unwound and  *)
(* nothing after it takes effect.                                          *)
(***************************************************************************)
Parser(toks) ==
    [tokens |-> toks,
     context |-> [line |-> 0, position |-> 0],
     parser_position |-> 0,
     panicked |-> FALSE]

Panic(self) == [self EXCEPT !.panicked = TRUE]

SyntaxError(message, expected, line, position) ==
    [message |-> message, expected |-> expected, line |-> line, position |-> position]

FatalError ==
    SyntaxError("Attempted to access a non-existent token", {}, 0, 0)

get_current_token(self) ==
    IF self.parser_position < Len(self.tokens)
    THEN Ok(self, self.tokens[self.parser_position + 1])
    ELSE Err(self, FatalError)

set_context(self, token) ==
    [self EXCEPT !.context = [line |-> token.line + 1, position |-> token.start + 1]]

\* Returns the parser after the move; the token returned by the code is the
\* one that was current before the move.
move_position(self) ==
    IF self.panicked \/ is_err(get_current_token(self))
    THEN Panic(self)
    ELSE set_context([self EXCEPT !.parser_position = @ + 1],
                     get_current_token(self).value)

move_position_back(self) ==
    IF self.panicked \/ self.parser_position = 0
    THEN Panic(self)
    ELSE LET moved == [self EXCEPT !.parser_position = @ - 1]
         IN  IF is_err(get_current_token(moved))
             THEN Panic(moved)
             ELSE set_context(moved, get_current_token(moved).value)

\* is_position_movable, one token short: the last token is never looked at.
is_position_movable_short(self) == self.parser_position + 2 < Len(self.tokens)

\* is_position_movable that allows the move from the last token past the end.
is_position_movable_past_the_end(self) == self.parser_position < Len(self.tokens)

is_position_movable(self) == self.parser_position + 1 < Len(self.tokens)

\* move_if_position_is_movable that reports the move without making it.
move_if_position_is_movable_standing(self) ==
    [moved |-> is_position_movable(self), self |-> self]

\* [moved |-> the returned bool, self |-> the parser afterwards]
move_if_position_is_movable(self) ==
    IF ~is_position_movable(self)
    THEN [moved |-> FALSE, self |-> self]
    ELSE [moved |-> TRUE, self |-> move_position(self)]

\* move_if_next_token_is that stays on the next token when it is of another type.
move_if_next_token_is_staying(self, desired_types) ==
    IF ~is_position_movable(self)
    THEN [moved |-> FALSE, self |-> self]
    ELSE [moved |-> get_current_token(move_position(self)).value.token_type \in desired_types,
          self |-> move_position(self)]

move_if_next_token_is(self, desired_types) ==
    IF ~is_position_movable(self)
    THEN [moved |-> FALSE, self |-> self]
    ELSE LET next == move_position(self)
         IN  IF next.panicked \/ is_err(get_current_token(next))
             THEN \* self.get_current_token().unwrap()
                  [moved |-> FALSE, self |-> Panic(next)]
             ELSE IF get_current_token(next).value.token_type \in desired_types
             THEN [moved |-> TRUE, self |-> next]
             ELSE [moved |-> FALSE, self |-> move_position_back(next)]

raise_expected_tokens_error(self, expected_tokens) ==
    Err(self, SyntaxError("expected", expected_tokens,
                          self.context.line, self.context.position))

\* require_token that hands the wrong token back to its caller.
require_token_returning_token(self, expected_tokens) ==
    IF is_ok(get_current_token(self))
    THEN get_current_token(self)
    ELSE raise_expected_tokens_error(self, expected_tokens)

require_token(self, expected_tokens) ==
    LET current_token == get_current_token(self)
    IN  IF is_ok(current_token) /\ current_token.value.token_type \in expected_tokens
        THEN current_token
        ELSE raise_expected_tokens_error(self, expected_tokens)

(***************************************************************************)
(* AST nodes (scripting/ast/*.rs).                                         *)
(***************************************************************************)
ObjectNode(name) == [node |-> "Object", name |-> name]
CallNode(callee, parameters) ==
    [node |-> "Call", callee |-> callee, parameters |-> parameters]
MemberNode(left, right) == [node |-> "Member", left |-> left, right |-> right]
StringNode(value) == [node |-> "String", string |-> value]
NumberNode(value) == [node |-> "Number", number |-> value]
NullNode == [node |-> "Null"]
BooleanNode(token_type) == [node |-> "Boolean", boolean |-> (token_type = "True")]
UnaryOperatorNode(operator, operand, side) ==
    [node |-> "UnaryOperator", operator |-> operator, operand |-> operand, side |-> side]
BinaryOperatorNode(operator, left_operand, right_operand) ==
    [node |-> "BinaryOperator", operator |-> operator,
     left_operand |-> left_operand, right_operand |-> right_operand]
VariableDeclaration(name, datatype, value) ==
    [node |-> "VariableDeclaration", name |-> name, datatype |-> datatype, value |-> value]
FunctionDeclarationNode(name, datatype, parameters) ==
    [node |-> "FunctionDeclaration", name |-> name, datatype |-> datatype,
     parameters |-> parameters]
new_calling(name, value) == [parameter |-> "Calling", name |-> name, value |-> value]
new_functional(name, datatype) ==
    [parameter |-> "Functional", name |-> name, datatype |-> datatype]

\* str::parse::<f64> on the numerals the lexer produces.
Numerals == <<"0", "1", "2", "3", "4", "5", "6", "7", "8", "9">>
parse_number(value) == (CHOOSE i \in 1..Len(Numerals) : Numerals[i] = value) - 1

(***************************************************************************)
(* parse_datatype                                                          *)
(***************************************************************************)
parse_datatype(self) ==
    LET current_token == get_current_token(self)
    IN  IF is_ok(current_token) /\ is_type(current_token.value, "Colon")
        THEN LET moved == move_position(self)
                 datatype_token == require_token(moved, {"Alphanumeric"})
             IN  IF is_err(datatype_token)
                 THEN Err(moved, datatype_token.err)
                 ELSE Ok(moved, Some(datatype_token.value.value))
        ELSE Ok(self, None)

(***************************************************************************)
(* parse_formula, parse_identifiers, parse_parameters                      *)
(***************************************************************************)
is_unary_operator_prohibited(self, token_to_check, prohibited_types) ==
    IF token_to_check.token_type \in prohibited_types
    THEN Err(self, SyntaxError("operator is already used", {token_to_check.token_type},
                               token_to_check.line, token_to_check.start))
    ELSE Ok(self, None)

\* prohibit where Increment and Decrement prohibit only themselves.
prohibit_only_itself(prohibited_types, token_type) == prohibited_types \cup {token_type}

prohibit(prohibited_types, token_type) ==
    IF token_type \in {"Increment", "Decrement"}
    THEN prohibited_types \cup {"Increment", "Decrement"}
    ELSE prohibited_types \cup {token_type}

\* The prefix loop of parse_formula.  The value of an Ok result is
\* [unary_operator_tokens, prohibited_unary_operator_types].
RECURSIVE unary_prefix(_, _, _)
unary_prefix(self, unary_operator_tokens, prohibited_types) ==
    LET current == get_current_token(self)
    IN  IF self.panicked \/ is_err(current)
        THEN Err(self, current.err)
        ELSE IF current.value.token_type \in UNARY_OPERATOR_TOKENS
        THEN LET checked == is_unary_operator_prohibited(self, current.value, prohibited_types)
             IN  IF is_err(checked)
                 THEN checked
                 ELSE unary_prefix(move_position(self),
                                   Append(unary_operator_tokens, current.value),
                                   prohibit(prohibited_types, current.value.token_type))
        ELSE Ok(self, [unary_operator_tokens |-> unary_operator_tokens,
                       prohibited_unary_operator_types |-> prohibited_types])

\* for unary_operator_token in unary_operator_tokens { left_operand = Unary(.., left_operand, Left) }
RECURSIVE wrap_unary_operators(_, _)
wrap_unary_operators(unary_operator_tokens, left_operand) ==
    IF unary_operator_tokens = <<>>
    THEN left_operand
    ELSE wrap_unary_operators(Tail(unary_operator_tokens),
             UnaryOperatorNode(Head(unary_operator_tokens).token_type, left_operand, "Left"))

RECURSIVE parse_formula(_)
RECURSIVE parse_identifiers(_)
RECURSIVE parse_parameters_loop(_, _, _, _)

parse_parameters(self, parameter_type) ==
    parse_parameters_loop(self, parameter_type, <<>>, FALSE)

\* let _ = self.move_position(); self.require_token(vec![RPar])?; Ok(arguments)
close_parenthesis(arguments) ==
    IF is_err(arguments)
    THEN arguments
    ELSE IF is_err(require_token(move_position(arguments.self), {"RPar"}))
    THEN require_token(move_position(arguments.self), {"RPar"})
    ELSE Ok(move_position(arguments.self), arguments.value)

parse_parameters_in_parenthesis(self, parameter_type) ==
    IF is_err(require_token(self, {"LPar"}))
    THEN require_token(self, {"LPar"})
    ELSE close_parenthesis(parse_parameters(move_position(self), parameter_type))

\* arguments.push(Parameter::new_calling(name, value_node))
calling_parameter(name, value_node) ==
    IF is_err(value_node)
    THEN value_node
    ELSE Ok(value_node.self, new_calling(name, value_node.value))

\* arguments.push(Parameter::new_functional(name, argument_datatype.unwrap()))
functional_parameter(name, argument_datatype) ==
    IF is_err(argument_datatype)
    THEN argument_datatype
    ELSE IF ~is_some(argument_datatype.value)
    THEN Err(argument_datatype.self,
             SyntaxError("Argument type is expected", {},
                         argument_datatype.self.context.line,
                         argument_datatype.self.context.position))
    ELSE Ok(argument_datatype.self, new_functional(name, unwrap(argument_datatype.value)))

\* check_if_incorrect_argument_sequence(false, self)
positional_after_keyword(self, current_token) ==
    Err(self, SyntaxError("Positional argument follows keyword argument", {},
                          current_token.line + 1, current_token.start + 1))

\* One pass of the loop of parse_parameters up to arguments.push: Ok with the
\* pushed Parameter, Err, or "End" when the loop breaks (self is then the
\* parser before move_position_back).
parse_parameter(self, parameter_type, arguments, keyword_arguments_time) ==
    LET is_calling_parameter == parameter_type = "Call"
        has_comma == arguments # <<>> /\ is_type(get_current_token(self).value, "Comma")
        at_item == IF has_comma THEN move_position(self) ELSE self
        first_parameter_token == get_current_token(at_item)
        first_type == first_parameter_token.value.token_type
        after_name == move_position(at_item)
        assign_token == get_current_token(after_name)
    IN  CASE is_err(first_parameter_token) -> first_parameter_token
          [] is_ok(first_parameter_token) /\ is_calling_parameter
             /\ first_type = "Alphanumeric" ->
                 \* name = formula
                 IF is_err(assign_token) \/ ~is_type(assign_token.value, "Assign")
                 THEN raise_expected_tokens_error(after_name, {"Assign"})
                 ELSE calling_parameter(Some(first_parameter_token.value.value),
                                        parse_formula(move_position(after_name)))
          [] is_ok(first_parameter_token) /\ is_calling_parameter
             /\ first_type # "Alphanumeric" /\ first_type \in FORMULA_TOKENS ->
                 \* formula
                 IF keyword_arguments_time
                 THEN positional_after_keyword(at_item, first_parameter_token.value)
                 ELSE calling_parameter(None, parse_formula(at_item))
          [] is_ok(first_parameter_token) /\ parameter_type = "Function"
             /\ first_type = "Alphanumeric" ->
                 \* name : type
                 functional_parameter(first_parameter_token.value.value,
                                      parse_datatype(after_name))
          [] OTHER -> [kind |-> "End", self |-> at_item, value |-> None, err |-> NoError]

\* next_parameter whose break leaves the cursor where the list ended.
next_parameter_without_rewind(parameter, parameter_type, arguments, keyword_arguments_time) ==
    CASE parameter.kind = "End" -> Ok(parameter.self, arguments)
      [] parameter.kind = "Err" -> parameter
      [] OTHER ->
             parse_parameters_loop(
                 move_position(parameter.self), parameter_type,
                 Append(arguments, parameter.value),
                 keyword_arguments_time
                     \/ (parameter.value.parameter = "Calling"
                         /\ is_some(parameter.value.name)))

\* let _ = self.move_position(); and the next pass, or the break
next_parameter(parameter, parameter_type, arguments, keyword_arguments_time) ==
    CASE parameter.kind = "End" -> Ok(move_position_back(parameter.self), arguments)
      [] parameter.kind = "Err" -> parameter
      [] OTHER ->
             parse_parameters_loop(
                 move_position(parameter.self), parameter_type,
                 Append(arguments, parameter.value),
                 keyword_arguments_time
                     \/ (parameter.value.parameter = "Calling"
                         /\ is_some(parameter.value.name)))

parse_parameters_loop(self, parameter_type, arguments, keyword_arguments_time) ==
    IF self.panicked
    THEN Ok(self, arguments)
    ELSE IF is_err(get_current_token(self))
    THEN Ok(move_position_back(self), arguments)
    ELSE next_parameter(
             parse_parameter(self, parameter_type, arguments, keyword_arguments_time),
             parameter_type, arguments, keyword_arguments_time)

\* member_node with the rest of the chain on the left.
member_node_swapped(object_node, next_member) ==
    IF is_err(next_member)
    THEN next_member
    ELSE Ok(next_member.self, MemberNode(next_member.value, object_node))

\* member_node that builds the chain to the left: a.b.c as Member(Member(a, b), c).
member_node_left_recursive(object_node, next_member) ==
    IF is_err(next_member)
    THEN next_member
    ELSE IF next_member.value.node = "Member"
    THEN Ok(next_member.self,
            MemberNode(MemberNode(object_node, next_member.value.left),
                       next_member.value.right))
    ELSE Ok(next_member.self, MemberNode(object_node, next_member.value))

\* object_node = Box::new(MemberNode::new(object_node, next_member))
member_node(object_node, next_member) ==
    IF is_err(next_member)
    THEN next_member
    ELSE Ok(next_member.self, MemberNode(object_node, next_member.value))

\* parse_member that takes a `.` with nothing after it for the end of the chain.
parse_member_trailing_dot(object_node, dot) ==
    IF ~dot.moved \/ ~move_if_position_is_movable(dot.self).moved
    THEN Ok(dot.self, object_node)
    ELSE member_node(object_node,
                     parse_identifiers(move_if_position_is_movable(dot.self).self))

\* if self.move_if_next_token_is(vec![Dot]) { ... }
parse_member(object_node, dot) ==
    IF ~dot.moved
    THEN Ok(dot.self, object_node)
    ELSE IF ~move_if_position_is_movable(dot.self).moved
    THEN Err(dot.self, SyntaxError("Children expected", {},
                                   dot.self.context.line,
                                   dot.self.context.position + 1))
    ELSE member_node(object_node,
                     parse_identifiers(move_if_position_is_movable(dot.self).self))

\* the Object or Call node before an optional `.`
parse_called(called) ==
    IF is_err(called)
    THEN called
    ELSE parse_member(called.value, move_if_next_token_is(called.self, {"Dot"}))

\* object_node = Box::new(CallNode::new(object_node, arguments))
call_node(object_node, arguments) ==
    IF is_err(arguments)
    THEN arguments
    ELSE Ok(arguments.self, CallNode(object_node, arguments.value))

\* if self.move_if_next_token_is(vec![LPar]) { ... }
parse_call(object_node, lpar) ==
    parse_called(IF lpar.moved
                 THEN call_node(object_node,
                                parse_parameters_in_parenthesis(lpar.self, "Call"))
                 ELSE Ok(lpar.self, object_node))

parse_identifiers(self) ==
    IF self.panicked \/ is_err(get_current_token(self))
    THEN Err(self, get_current_token(self).err)
    ELSE parse_call(ObjectNode(get_current_token(self).value.value),
                    move_if_next_token_is(self, {"LPar"}))

\* The primand of parse_formula: the match on formula_token.token_type.
parse_primand(self) ==
    LET formula_token == get_current_token(self).value
    IN  CASE formula_token.token_type = "Alphanumeric" -> parse_identifiers(self)
          [] formula_token.token_type = "CharArray" -> Ok(self, StringNode(formula_token.value))
          [] formula_token.token_type = "Number" ->
                 Ok(self, NumberNode(parse_number(formula_token.value)))
          [] formula_token.token_type = "Null" -> Ok(self, NullNode)
          [] formula_token.token_type \in {"True", "False"} ->
                 Ok(self, BooleanNode(formula_token.token_type))
          [] OTHER -> raise_expected_tokens_error(self, FORMULA_TOKENS)

\* binary_operator_node with the operands exchanged.
binary_operator_node_swapped(operator, left_operand, right_operand) ==
    IF is_err(right_operand)
    THEN right_operand
    ELSE Ok(right_operand.self,
            BinaryOperatorNode(operator.token_type, right_operand.value, left_operand))

\* Box::new(BinaryOperatorNode::new(operator.token_type, left_operand, right_operand))
binary_operator_node(operator, left_operand, right_operand) ==
    IF is_err(right_operand)
    THEN right_operand
    ELSE Ok(right_operand.self,
            BinaryOperatorNode(operator.token_type, left_operand, right_operand.value))

\* if self.move_if_next_token_is(BINARY_OPERATOR_TOKENS.to_vec()) { ... }
parse_binary(left_operand, binary) ==
    IF ~binary.moved
    THEN Ok(binary.self, left_operand)
    ELSE binary_operator_node(get_current_token(binary.self).value, left_operand,
                              parse_formula(move_position(binary.self)))

\* parse_postfix that wraps the operand without looking at the prohibited operators.
parse_postfix_unchecked(prohibited_types, left_operand, postfix) ==
    parse_binary(
        IF postfix.moved
        THEN UnaryOperatorNode(get_current_token(postfix.self).value.token_type,
                               left_operand, "Right")
        ELSE left_operand,
        move_if_next_token_is(postfix.self, BINARY_OPERATOR_TOKENS))

\* if self.move_if_next_token_is(UNARY_OPERATOR_TOKENS.to_vec()) { ... }
parse_postfix(prohibited_types, left_operand, postfix) ==
    LET right_unary_operator == get_current_token(postfix.self).value
    IN  IF postfix.moved
           /\ is_err(is_unary_operator_prohibited(postfix.self, right_unary_operator,
                                                  prohibited_types))
        THEN is_unary_operator_prohibited(postfix.self, right_unary_operator,
                                          prohibited_types)
        ELSE parse_binary(
                 IF postfix.moved
                 THEN UnaryOperatorNode(right_unary_operator.token_type, left_operand, "Right")
                 ELSE left_operand,
                 move_if_next_token_is(postfix.self, BINARY_OPERATOR_TOKENS))

\* the prefix operators wrapped around the primand
parse_left_operand(prefix, primand) ==
    IF is_err(primand)
    THEN primand
    ELSE parse_postfix(prefix.prohibited_unary_operator_types,
                       wrap_unary_operators(prefix.unary_operator_tokens, primand.value),
                       move_if_next_token_is(primand.self, UNARY_OPERATOR_TOKENS))

parse_prefixed(prefix) ==
    IF is_err(prefix)
    THEN prefix
    ELSE parse_left_operand(prefix.value, parse_primand(prefix.self))

parse_formula(self) == parse_prefixed(unary_prefix(self, <<>>, {}))

(***************************************************************************)
(* parse_expression: one statement.  The value of an Ok result is          *)
(* Option<node>.                                                           *)
(***************************************************************************)
variable_declaration(name, datatype, formula) ==
    IF is_err(formula)
    THEN formula
    ELSE Ok(formula.self, Some(VariableDeclaration(name, datatype, formula.value)))

parse_variable_declaration(self) ==
    LET variable_token == require_token(self, {"Alphanumeric"})
        datatype == parse_datatype(move_position(self))
        at_assign == IF is_some(datatype.value)
                     THEN move_position(datatype.self)
                     ELSE datatype.self
    IN  IF is_err(variable_token)
        THEN variable_token
        ELSE IF is_err(datatype)
        THEN datatype
        ELSE IF is_err(require_token(at_assign, {"Assign"}))
        THEN require_token(at_assign, {"Assign"})
        ELSE variable_declaration(variable_token.value.value, datatype.value,
                                  parse_formula(move_position(at_assign)))

\* function_declaration that drops the declared return type.
function_declaration_untyped(name, arguments) ==
    LET datatype == parse_datatype(move_position(arguments.self))
    IN  IF is_err(arguments)
        THEN arguments
        ELSE IF is_err(datatype)
        THEN datatype
        ELSE Ok(IF is_some(datatype.value)
                THEN datatype.self
                ELSE move_position_back(datatype.self),
                Some(FunctionDeclarationNode(name, None, arguments.value)))

function_declaration(name, arguments) ==
    LET datatype == parse_datatype(move_position(arguments.self))
    IN  IF is_err(arguments)
        THEN arguments
        ELSE IF is_err(datatype)
        THEN datatype
        ELSE Ok(IF is_some(datatype.value)
                THEN datatype.self
                ELSE move_position_back(datatype.self),
                Some(FunctionDeclarationNode(name, datatype.value, arguments.value)))

parse_function_declaration(self) ==
    IF is_err(require_token(self, {"Alphanumeric"}))
    THEN require_token(self, {"Alphanumeric"})
    ELSE function_declaration(
             require_token(self, {"Alphanumeric"}).value.value,
             parse_parameters_in_parenthesis(move_position(self), "Function"))

expression_statement(formula_node) ==
    IF is_err(formula_node)
    THEN formula_node
    ELSE Ok(formula_node.self, Some(formula_node.value))

RECURSIVE parse_expression(_)
parse_expression(self) ==
    IF self.panicked \/ is_err(get_current_token(self))
    THEN Ok(self, None)
    ELSE
    LET current_token == get_current_token(self).value
    IN  CASE current_token.token_type \in VARIABLE_ASSIGNMENT_TOKENS ->
                 parse_variable_declaration(move_position(self))
          [] current_token.token_type \notin VARIABLE_ASSIGNMENT_TOKENS
             /\ current_token.token_type \in FORMULA_TOKENS ->
                 expression_statement(
                     parse_formula(move_position_back(move_position(self))))
          [] current_token.token_type = "Function" ->
                 parse_function_declaration(move_position(self))
          [] current_token.token_type = "ExpressionEnd" ->
                 parse_expression(move_position(self))
          [] OTHER ->
                 Err(move_position(self),
                     SyntaxError("not implemented", {current_token.token_type},
                                 move_position(self).context.line,
                                 move_position(self).context.position))

(***************************************************************************)
(* Token vectors handed to Parser::new.  A vector is laid out from a       *)
(* sequence of token types: every token sits on one source line, two       *)
(* columns apart; identifiers and numerals get a value that depends on     *)
(* their place so that different tokens carry different text.              *)
(***************************************************************************)
Names == <<"a", "b", "c", "d", "e", "f", "g", "h", "i", "j", "k", "l", "m",
           "n", "o", "p", "q", "r", "s", "t">>

value_of(token_type, i) ==
    CASE token_type = "Alphanumeric" -> Names[((i - 1) % Len(Names)) + 1]
      [] token_type = "Number" -> Numerals[(i % Len(Numerals)) + 1]
      [] token_type = "CharArray" -> "text"
      [] OTHER -> ""

layout(types, line) ==
    [i \in 1..Len(types) |-> Token(types[i], value_of(types[i], i), line, 2 * (i - 1))]

RECURSIVE Concat(_)
Concat(seqs) == IF seqs = <<>> THEN <<>> ELSE Head(seqs) \o Concat(Tail(seqs))

SeqsUpTo(S, n) == UNION {[1..k -> S] : k \in 0..n}

\* every vector of at most MaxLen tokens over these types
Alphabet ==
    {"Fin", "Function", "Import", "Alphanumeric", "Number", "Increment", "Not",
     "Plus", "LPar", "RPar", "Dot", "Comma", "Colon", "Assign", "ExpressionEnd"}

ShortInputs == SeqsUpTo(Alphabet, MaxLen)

DeclarationHead == {<<>>, <<"Fin", "Alphanumeric", "Assign">>,
                    <<"Mut", "Alphanumeric", "Colon", "Alphanumeric", "Assign">>}
Terminator == {<<>>, <<"ExpressionEnd">>}

\* x1 op1 x2 ... opk x(k+1)
PrimandTypes == {"Alphanumeric", "Number", "Null"}
OperatorChain(xs, ops) ==
    Concat([i \in 1..Len(xs) |-> IF i = 1 THEN <<xs[1]>> ELSE <<ops[i - 1], xs[i]>>])
FormulaInputs ==
    {head \o OperatorChain(xs, ops) \o end :
        head \in {<<>>, <<"Fin", "Alphanumeric", "Assign">>},
        xs \in UNION {[1..(k + 1) -> PrimandTypes] : k \in 1..MaxOperators},
        ops \in [1..MaxOperators -> BINARY_OPERATOR_TOKENS],
        end \in Terminator}

\* u1 ... uk primand [postfix]
UnaryInputs ==
    {head \o chain \o <<x>> \o post :
        head \in {<<>>, <<"Fin", "Alphanumeric", "Assign">>},
        chain \in SeqsUpTo(UNARY_OPERATOR_TOKENS, MaxChain),
        x \in {"Alphanumeric", "True"},
        post \in {<<>>} \cup {<<u>> : u \in UNARY_OPERATOR_TOKENS}}

\* function name ( p1 : t1 , ... ) [: ret] [;], also with the commas left out
\* or with one more before the `)`
Commas == {<<"Comma">>, <<>>}
TypedParameters(n, comma) ==
    Concat([i \in 1..n |-> (IF i = 1 THEN <<>> ELSE comma)
                               \o <<"Alphanumeric", "Colon", "Alphanumeric">>])
FunctionInputs ==
    {<<"Function", "Alphanumeric", "LPar">> \o TypedParameters(n, comma) \o trailing
         \o <<"RPar">> \o ret \o end :
        n \in 0..MaxParams,
        comma \in Commas,
        trailing \in Commas,
        ret \in {<<>>, <<"Colon", "Alphanumeric">>},
        end \in Terminator}

\* f ( item , ... ) with keyword and positional items, also with the commas
\* left out or with one more before the `)`
CallItems == {<<"Alphanumeric", "Assign", "Number">>, <<"Number">>, <<"Alphanumeric">>,
              <<"Negate", "Number">>}
CallParameters(items, comma) ==
    Concat([i \in 1..Len(items) |-> (IF i = 1 THEN <<>> ELSE comma) \o items[i]])
CallInputs ==
    {head \o <<"Alphanumeric", "LPar">> \o CallParameters(items, comma) \o trailing
         \o <<"RPar">> \o end :
        head \in {<<>>, <<"Fin", "Alphanumeric", "Assign">>},
        items \in SeqsUpTo(CallItems, MaxItems),
        comma \in Commas,
        trailing \in Commas,
        end \in Terminator}

\* a . f ( k = 5 ) . r
Segments == {<<"Alphanumeric">>,
             <<"Alphanumeric", "LPar", "Alphanumeric", "Assign", "Number", "RPar">>}
MemberChain(segments) ==
    Concat([i \in 1..Len(segments) |-> (IF i = 1 THEN <<>> ELSE <<"Dot">>) \o segments[i]])
MemberInputs ==
    {head \o MemberChain(segments) \o end :
        head \in DeclarationHead,
        segments \in UNION {[1..k -> Segments] : k \in 1..3},
        end \in Terminator \cup {<<"Dot">>}}

\* statement ; statement ...
StatementSamples ==
    {<<"Fin", "Alphanumeric", "Assign", "Number">>,
     <<"Number", "Multiply", "Number">>,
     <<"Function", "Alphanumeric", "LPar", "RPar">>,
     <<"Mut", "Alphanumeric", "Colon", "Alphanumeric", "Assign", "Alphanumeric">>,
     <<"Import">>,
     <<"Fin", "Alphanumeric", "Number">>}
Separators == {<<"ExpressionEnd">>, <<>>, <<"ExpressionEnd", "ExpressionEnd">>}
ProgramInputs ==
    {Concat([i \in 1..Len(statements) |->
                 (IF i = 1 THEN <<>> ELSE separator) \o statements[i]]) \o end :
        statements \in UNION {[1..k -> StatementSamples] : k \in 1..MaxStatements},
        separator \in Separators,
        end \in Terminator}

\* [u] primand postfix op primand: a postfix operator before a binary one
PostfixInputs ==
    {head \o chain \o <<x, post, op, "Number">> \o end :
        head \in {<<>>, <<"Fin", "Alphanumeric", "Assign">>},
        chain \in SeqsUpTo(UNARY_OPERATOR_TOKENS, 1),
        x \in {"Alphanumeric", "True"},
        post \in UNARY_OPERATOR_TOKENS,
        op \in BINARY_OPERATOR_TOKENS,
        end \in Terminator}

Inputs ==
    <<ShortInputs, FormulaInputs, UnaryInputs, FunctionInputs, CallInputs,
      MemberInputs, ProgramInputs, PostfixInputs>>

(***************************************************************************)
(* Parser::new and the statement loop of Parser::parse.                    *)
(***************************************************************************)
Self ==
    [tokens |-> tokens, context |-> context, parser_position |-> parser_position,
     panicked |-> FALSE]

BodyNode(nodes) == [kind |-> "Ok", nodes |-> nodes]
Unwound == [kind |-> "Panic", nodes |-> <<>>]
Running == [kind |-> "Running", nodes |-> <<>>]

Init ==
    /\ \E family \in 1..Len(Inputs) : \E types \in Inputs[family] : \E line \in 0..MaxLine :
           tokens = layout(types, line)
    /\ parser_position = 0
    /\ context = [line |-> 0, position |-> 0]
    /\ root = <<>>
    /\ pc = "parse_expression"
    /\ result = Running
    /\ printed = <<>>

Continue(self, next_pc) ==
    IF self.panicked
    THEN /\ pc' = "done"
         /\ result' = Unwound
         /\ UNCHANGED <<tokens, parser_position, context, printed>>
    ELSE /\ pc' = next_pc
         /\ parser_position' = self.parser_position
         /\ context' = self.context
         /\ UNCHANGED <<tokens, result, printed>>

\* return Ok(value)
Return(self, nodes) ==
    /\ pc' = "done"
    /\ result' = IF self.panicked THEN Unwound ELSE BodyNode(nodes)
    /\ parser_position' = self.parser_position
    /\ context' = self.context
    /\ UNCHANGED tokens

\* Abort, returning the statements parsed so far instead of an empty Body.
Abort_partial_tree(self, err) ==
    /\ printed' = Append(printed, err)
    /\ root' = root
    /\ Return(self, root)

\* Abort, propagating the error to the caller (return Err(e)).
Abort_propagating(self, err) ==
    /\ printed' = Append(printed, err)
    /\ root' = root
    /\ pc' = "done"
    /\ result' = [kind |-> "Err", nodes |-> <<>>]
    /\ parser_position' = self.parser_position
    /\ context' = self.context
    /\ UNCHANGED tokens

\* println!("{}", err); return Ok(BodyNode::new())
Abort(self, err) ==
    /\ printed' = IF self.panicked THEN printed ELSE Append(printed, err)
    /\ root' = root
    /\ Return(self, <<>>)

\* add_node that puts the new statement in front of the earlier ones.
add_node_in_front(parsed_expression) ==
    /\ is_ok(parsed_expression)
    /\ is_some(parsed_expression.value)
    /\ root' = <<unwrap(parsed_expression.value)>> \o root
    /\ Continue(parsed_expression.self, "require_token")

\* Ok(Some(..)) => add_node(..)
add_node(parsed_expression) ==
    /\ is_ok(parsed_expression)
    /\ is_some(parsed_expression.value)
    /\ root' = IF parsed_expression.self.panicked
               THEN root
               ELSE Append(root, unwrap(parsed_expression.value))
    /\ Continue(parsed_expression.self, "require_token")

StatementParsed ==
    /\ pc = "parse_expression"
    /\ add_node(parse_expression(Self))

\* Ok(None) => break
no_expression(parsed_expression) ==
    /\ is_ok(parsed_expression)
    /\ ~is_some(parsed_expression.value)
    /\ Return(parsed_expression.self, root)
    /\ UNCHANGED <<root, printed>>

NoExpression ==
    /\ pc = "parse_expression"
    /\ no_expression(parse_expression(Self))

\* Err(e) => { println!; return Ok(BodyNode::new()) }
statement_error(parsed_expression) ==
    /\ is_err(parsed_expression)
    /\ Abort(parsed_expression.self, parsed_expression.err)

StatementError ==
    /\ pc = "parse_expression"
    /\ statement_error(parse_expression(Self))

\* if self.is_position_movable() { move_position; require_token(ExpressionEnd) } : Ok
TerminatorAccepted ==
    /\ pc = "require_token"
    /\ is_position_movable(Self)
    /\ LET moved == move_position(Self)
       IN  /\ is_ok(require_token(moved, {"ExpressionEnd"}))
           /\ Continue(moved, "move_if_position_is_movable")
    /\ root' = root

\* ... semicolon_required.is_err(): println!; return Ok(BodyNode::new())
TerminatorMissing ==
    /\ pc = "require_token"
    /\ is_position_movable(Self)
    /\ LET moved == move_position(Self)
           semicolon_required == require_token(moved, {"ExpressionEnd"})
       IN  /\ is_err(semicolon_required)
           /\ Abort(moved, semicolon_required.err)

\* the statement ended on the last token: nothing is required
LastToken ==
    /\ pc = "require_token"
    /\ ~is_position_movable(Self)
    /\ Continue(Self, "move_if_position_is_movable")
    /\ root' = root

\* if !self.move_if_position_is_movable() { break }  ...  Ok(root)
EndOfTokens ==
    /\ pc = "move_if_position_is_movable"
    /\ ~move_if_position_is_movable(Self).moved
    /\ Return(Self, root)
    /\ UNCHANGED <<root, printed>>

NextStatement ==
    /\ pc = "move_if_position_is_movable"
    /\ move_if_position_is_movable(Self).moved
    /\ Continue(move_if_position_is_movable(Self).self, "parse_expression")
    /\ root' = root

Next ==
    \/ StatementParsed
    \/ NoExpression
    \/ StatementError
    \/ TerminatorAccepted
    \/ TerminatorMissing
    \/ LastToken
    \/ EndOfTokens
    \/ NextStatement

Spec == Init /\ [][Next]_vars

(***************************************************************************)
(* Properties of Parser::parse.                                            *)
(***************************************************************************)
Done == pc = "done"
Failed == Done /\ printed # <<>>
TypeAt(i) == IF i \in 1..Len(tokens) THEN tokens[i].token_type ELSE "none"

\* C1: whenever a syntax error was raised while parsing a statement, also
\* after earlier statements were parsed and added, the Body that parse
\* returns has no nodes.
C1_NoPartialTree == Failed => result.nodes = <<>>

\* an error after at least one statement was added to the root
C1_Witness == Failed /\ Len(root) >= 1 /\ result.nodes = <<>>

\* C2 as stated: after a syntax error parse returns an error value that
\* carries the diagnostic.
C2_ErrorValue == Failed => result.kind = "Err"

\* C2 amended: after a syntax error the diagnostic is printed, it is the
\* only one, and parse returns a success value (whose Body is empty).
C2_PrintedAndOk == Failed => (Len(printed) = 1 /\ result.kind = "Ok")

\* a failed parse of a first statement: one diagnostic, an Ok result
C2_Witness == Failed /\ root = <<>> /\ result = BodyNode(<<>>) /\ Len(printed) = 1

\* C3: after a successfully parsed statement, when one more token remains
\* and it is not ExpressionEnd, the parse fails with an empty Body.
C3_TerminatorRequired ==
    [][(pc = "require_token"
        /\ parser_position + 1 < Len(tokens)
        /\ TypeAt(parser_position + 2) # "ExpressionEnd")
       => (pc' = "done" /\ result' = BodyNode(<<>>)
           /\ Len(printed') = 1 /\ printed'[1].expected = {"ExpressionEnd"})]_vars

\* a statement was parsed and the token after it was not a terminator
C3_Witness ==
    /\ Failed
    /\ Len(root) >= 1
    /\ result.nodes = <<>>
    /\ printed[1].expected = {"ExpressionEnd"}

(***************************************************************************)
(* The trees the grammar of the language assigns to simple statements,     *)
(* written down independently of the parser: a primand that is a literal   *)
(* or a plain identifier, a chain of primands joined by binary operators,  *)
(* a variable declaration of such a chain, a function declaration.         *)
(***************************************************************************)
LeafTypes == {"Alphanumeric", "CharArray", "Number", "Null", "True", "False"}

Leaf(token) ==
    CASE token.token_type = "Alphanumeric" -> [node |-> "Object", name |-> token.value]
      [] token.token_type = "CharArray" -> [node |-> "String", string |-> token.value]
      [] token.token_type = "Number" ->
             [node |-> "Number",
              number |-> (CHOOSE n \in 0..9 : Numerals[n + 1] = token.value)]
      [] token.token_type = "Null" -> [node |-> "Null"]
      [] OTHER -> [node |-> "Boolean", boolean |-> (token.token_type = "True")]

\* toks[from..to] is x1 op1 x2 ... opk x(k+1), k >= 0
IsChain(toks, from, to) ==
    /\ from <= to
    /\ (to - from) % 2 = 0
    /\ \A i \in from..to :
           IF (i - from) % 2 = 0
           THEN toks[i].token_type \in LeafTypes
           ELSE toks[i].token_type \in BINARY_OPERATOR_TOKENS

RECURSIVE RightNested(_, _, _)
RightNested(toks, from, to) ==
    IF from = to
    THEN Leaf(toks[from])
    ELSE [node |-> "BinaryOperator", operator |-> toks[from + 1].token_type,
          left_operand |-> Leaf(toks[from]),
          right_operand |-> RightNested(toks, from + 2, to)]

\* where the formula of  kw ident [: type] = formula  starts, or 0
FormulaStart(toks, from, to) ==
    IF from + 3 <= to
       /\ toks[from].token_type \in {"Mut", "Fin"}
       /\ toks[from + 1].token_type = "Alphanumeric"
    THEN IF toks[from + 2].token_type = "Assign"
         THEN from + 3
         ELSE IF from + 5 <= to
                 /\ toks[from + 2].token_type = "Colon"
                 /\ toks[from + 3].token_type = "Alphanumeric"
                 /\ toks[from + 4].token_type = "Assign"
         THEN from + 5
         ELSE 0
    ELSE 0

DeclaredType(toks, from) ==
    IF toks[from + 2].token_type = "Colon" THEN <<toks[from + 3].value>> ELSE <<>>

IsSimpleDeclaration(toks, from, to) ==
    /\ FormulaStart(toks, from, to) # 0
    /\ IsChain(toks, FormulaStart(toks, from, to), to)

\* function name ( p1 : t1 , ... , pn : tn ) [: ret], with n typed parameters
FunctionShape(toks, from, to, n) ==
    LET rpar == from + 3 + (IF n = 0 THEN 0 ELSE 4 * n - 1)
    IN  /\ rpar <= to
        /\ toks[from].token_type = "Function"
        /\ toks[from + 1].token_type = "Alphanumeric"
        /\ toks[from + 2].token_type = "LPar"
        /\ \A i \in 1..n :
               /\ toks[from + 4 * i - 1].token_type = "Alphanumeric"
               /\ toks[from + 4 * i].token_type = "Colon"
               /\ toks[from + 4 * i + 1].token_type = "Alphanumeric"
               /\ (i < n => toks[from + 4 * i + 2].token_type = "Comma")
        /\ toks[rpar].token_type = "RPar"
        /\ \/ to = rpar
           \/ /\ to = rpar + 2
              /\ toks[rpar + 1].token_type = "Colon"
              /\ toks[rpar + 2].token_type = "Alphanumeric"

ParameterCount(toks, from, to) ==
    IF \E n \in 0..Len(toks) : FunctionShape(toks, from, to, n)
    THEN CHOOSE n \in 0..Len(toks) : FunctionShape(toks, from, to, n)
    ELSE -1

IsFunctionDeclaration(toks, from, to) == ParameterCount(toks, from, to) >= 0

FunctionTree(toks, from, to) ==
    LET n == ParameterCount(toks, from, to)
    IN  [node |-> "FunctionDeclaration",
         name |-> toks[from + 1].value,
         datatype |-> IF toks[to].token_type = "RPar" THEN <<>> ELSE <<toks[to].value>>,
         parameters |-> [i \in 1..n |->
                            [parameter |-> "Functional",
                             name |-> toks[from + 4 * i - 1].value,
                             datatype |-> toks[from + 4 * i + 1].value]]]

IsStatement(toks, from, to) ==
    \/ IsChain(toks, from, to)
    \/ IsSimpleDeclaration(toks, from, to)
    \/ IsFunctionDeclaration(toks, from, to)

StatementTree(toks, from, to) ==
    CASE IsChain(toks, from, to) -> RightNested(toks, from, to)
      [] IsSimpleDeclaration(toks, from, to) ->
             [node |-> "VariableDeclaration",
              name |-> toks[from + 1].value,
              datatype |-> DeclaredType(toks, from),
              value |-> RightNested(toks, FormulaStart(toks, from, to), to)]
      [] OTHER -> FunctionTree(toks, from, to)

\* The places of the ExpressionEnd tokens, and the statements between them.
Terminators(toks) == {i \in 1..Len(toks) : toks[i].token_type = "ExpressionEnd"}
LastOfInput(toks) ==
    IF Len(toks) \in Terminators(toks) THEN Len(toks) - 1 ELSE Len(toks)
\* the statement that ends right before i, a terminator or the end, starts here
StatementStart(toks, i) ==
    IF \E j \in Terminators(toks) : j < i
    THEN 1 + CHOOSE j \in Terminators(toks) : j < i /\ \A k \in Terminators(toks) : k < i => k <= j
    ELSE 1
StatementEnds(toks) ==
    {i - 1 : i \in {j \in Terminators(toks) : j <= LastOfInput(toks)}} \cup {LastOfInput(toks)}

\* n >= 1 well-formed statements separated by single ExpressionEnd tokens,
\* with or without one after the last
IsProgram(toks) ==
    /\ Len(toks) >= 1
    /\ \A e \in StatementEnds(toks) : IsStatement(toks, StatementStart(toks, e + 1), e)

RECURSIVE ProgramTrees(_, _)
ProgramTrees(toks, ends) ==
    IF ends = {}
    THEN <<>>
    ELSE LET e == CHOOSE x \in ends : \A y \in ends : y <= x
         IN  Append(ProgramTrees(toks, ends \ {e}),
                    StatementTree(toks, StatementStart(toks, e + 1), e))

\* C4: n >= 1 well-formed statements separated by ExpressionEnd, with or
\* without one after the last, parse to a Body of exactly these n
\* statements in source order.
C4_StatementsInOrder ==
    (Done /\ IsProgram(tokens))
        => result = BodyNode(ProgramTrees(tokens, StatementEnds(tokens)))

\* two statements, the second one without a terminator
C4_Witness ==
    /\ Done
    /\ IsProgram(tokens)
    /\ Len(result.nodes) = 2
    /\ TypeAt(Len(tokens)) # "ExpressionEnd"
    /\ result.nodes[1].node = "VariableDeclaration"

\* C5: function name ( p1 : t1 , ... , pn : tn ) [: ret] [;] parses to one
\* FunctionDeclaration with the n typed parameters in source order and the
\* return type ret when it is written, none otherwise.
C5_FunctionDeclaration ==
    (Done /\ Len(tokens) >= 1 /\ IsFunctionDeclaration(tokens, 1, LastOfInput(tokens)))
        => result = BodyNode(<<FunctionTree(tokens, 1, LastOfInput(tokens))>>)

\* two parameters and a return type
C5_Witness ==
    /\ Done
    /\ Len(tokens) >= 1
    /\ IsFunctionDeclaration(tokens, 1, LastOfInput(tokens))
    /\ Len(result.nodes) = 1
    /\ Len(result.nodes[1].parameters) = 2
    /\ result.nodes[1].datatype # <<>>

\* every node of a tree
RECURSIVE Nodes(_)
Nodes(n) ==
    {n} \cup
    CASE n.node = "Member" -> Nodes(n.left) \cup Nodes(n.right)
      [] n.node = "Call" ->
             Nodes(n.callee)
                 \cup UNION {Nodes(n.parameters[i].value) : i \in 1..Len(n.parameters)}
      [] n.node = "UnaryOperator" -> Nodes(n.operand)
      [] n.node = "BinaryOperator" -> Nodes(n.left_operand) \cup Nodes(n.right_operand)
      [] n.node = "VariableDeclaration" -> Nodes(n.value)
      [] OTHER -> {}

TypesOf(toks) == [i \in 1..Len(toks) |-> toks[i].token_type]

\* mut n : t = a . f ( k = 5 ) . r ;
IsMemberCallDeclaration ==
    TypesOf(tokens) =
        <<"Mut", "Alphanumeric", "Colon", "Alphanumeric", "Assign",
          "Alphanumeric", "Dot", "Alphanumeric", "LPar", "Alphanumeric", "Assign",
          "Number", "RPar", "Dot", "Alphanumeric", "ExpressionEnd">>

KeywordFive == <<[parameter |-> "Calling", name |-> <<tokens[10].value>>,
                  value |-> Leaf(tokens[12])]>>

\* C6 as stated: the value of the declaration is a Member node around a
\* Call node with the one keyword Parameter k whose callee is Object(a),
\* membered into r.
C6_CallOfFirstObject ==
    (Done /\ IsMemberCallDeclaration)
        => /\ Len(result.nodes) = 1
           /\ result.nodes[1].node = "VariableDeclaration"
           /\ result.nodes[1].value.node = "Member"
           /\ \E member \in Nodes(result.nodes[1].value) :
                  /\ member.node = "Member"
                  /\ member.left.node = "Call"
                  /\ member.left.parameters = KeywordFive
                  /\ member.left.callee = Leaf(tokens[6])
                  /\ member.right = Leaf(tokens[15])

\* C6 amended: the value is Member(Object(a), Member(Call(Object(f), k = 5),
\* Object(r))): the callee of the Call is Object(f), and Object(a) is the
\* left child of the outer Member.
C6_MemberOfCallOfSecondObject ==
    (Done /\ IsMemberCallDeclaration)
        => result =
               BodyNode(<<[node |-> "VariableDeclaration",
                           name |-> tokens[2].value,
                           datatype |-> <<tokens[4].value>>,
                           value |->
                               [node |-> "Member",
                                left |-> Leaf(tokens[6]),
                                right |->
                                    [node |-> "Member",
                                     left |-> [node |-> "Call",
                                               callee |-> Leaf(tokens[8]),
                                               parameters |-> KeywordFive],
                                     right |-> Leaf(tokens[15])]]]>>)

C6_Witness ==
    /\ Done
    /\ IsMemberCallDeclaration
    /\ Len(result.nodes) = 1
    /\ result.nodes[1].value.right.left.node = "Call"

\* C7: a formula x1 op1 x2 ... opk x(k+1) of primands joined by binary
\* operators, alone or as the value of a declaration, parses to the right-
\* nested tree BinaryOperator(op1, x1, BinaryOperator(op2, x2, ...)),
\* whatever the operators are.
C7_RightNested ==
    \A from \in {1, FormulaStart(tokens, 1, LastOfInput(tokens))} :
        (/\ Done
         /\ from # 0
         /\ IsChain(tokens, from, LastOfInput(tokens))
         /\ LastOfInput(tokens) >= from + 2)
            => /\ Len(result.nodes) = 1
               /\ RightNested(tokens, from, LastOfInput(tokens))
                      = IF from = 1 THEN result.nodes[1] ELSE result.nodes[1].value

\* a - b * c parsed to BinaryOperator(-, a, BinaryOperator(*, b, c))
C7_Witness ==
    /\ Done
    /\ Len(tokens) = 5
    /\ IsChain(tokens, 1, 5)
    /\ TypeAt(2) = "Minus"
    /\ TypeAt(4) = "Multiply"
    /\ Len(result.nodes) = 1
    /\ result.nodes[1].operator = "Minus"
    /\ result.nodes[1].right_operand.node = "BinaryOperator"
    /\ result.nodes[1].right_operand.operator = "Multiply"

\* the operators of the nested Left-side UnaryOperator nodes at n, outermost first
RECURSIVE LeftChain(_)
LeftChain(n) ==
    IF n.node = "UnaryOperator" /\ n.side = "Left"
    THEN <<n.operator>> \o LeftChain(n.operand)
    ELSE <<>>

Conflict(a, b) == a = b \/ {a, b} \subseteq {"Increment", "Decrement"}

ChainAllowed(chain) ==
    \A i, j \in 1..Len(chain) : i < j => ~Conflict(chain[i], chain[j])

\* where a formula starts in the input: at the first token, or after kw ident [: type] =
FormulaStarts == {1, FormulaStart(tokens, 1, Len(tokens))} \ {0}

\* the last token of the run of unary operators that starts at from (from - 1 if none)
RECURSIVE PrefixEnd(_)
PrefixEnd(from) ==
    IF TypeAt(from) \in UNARY_OPERATOR_TOKENS THEN PrefixEnd(from + 1) ELSE from - 1

\* the operators of the prefix chain at from that an earlier one of the chain prohibits
Reused(from) ==
    {i \in from..PrefixEnd(from) :
        \E j \in from..(i - 1) : Conflict(TypeAt(j), TypeAt(i))}

FirstReused(from) == CHOOSE i \in Reused(from) : \A j \in Reused(from) : i <= j

\* C8: in a prefix chain Increment and Decrement prohibit each other and
\* themselves, any other unary operator only itself; a chain that uses a
\* prohibited operator fails with "operator is already used", and every
\* prefix chain of an accepted tree has at most one of Increment and
\* Decrement and every other operator at most once.
C8_ProhibitedOperators ==
    /\ \A i \in 1..Len(root) :
           \A n \in Nodes(root[i]) : ChainAllowed(LeftChain(n))
    /\ \A from \in FormulaStarts :
           (Done /\ Reused(from) # {})
               => /\ result = BodyNode(<<>>)
                  /\ Len(printed) = 1
                  /\ printed[1].message = "operator is already used"
                  /\ printed[1].expected = {TypeAt(FirstReused(from))}

\* ++ -- x is rejected because of the Decrement
C8_Witness ==
    /\ Done
    /\ TypeAt(1) = "Increment"
    /\ TypeAt(2) = "Decrement"
    /\ printed # <<>>
    /\ printed[1].message = "operator is already used"
    /\ printed[1].expected = {"Decrement"}

\* u1 (u2 (... (uk x))) with side = Left
RECURSIVE FirstOutermost(_, _, _)
FirstOutermost(toks, from, primand) ==
    IF from = primand
    THEN Leaf(toks[primand])
    ELSE [node |-> "UnaryOperator", operator |-> toks[from].token_type,
          operand |-> FirstOutermost(toks, from + 1, primand), side |-> "Left"]

\* C9 as stated: prefix operators u1 ... uk before a primand are nested with
\* u1 outermost and uk directly around the primand, all with side = Left.
C9_FirstOperatorOutermost ==
    \A from \in FormulaStarts :
        (/\ Done
         /\ PrefixEnd(from) >= from
         /\ PrefixEnd(from) + 1 = LastOfInput(tokens)
         /\ TypeAt(LastOfInput(tokens)) \in LeafTypes
         /\ Len(result.nodes) = 1)
            => FirstOutermost(tokens, from, LastOfInput(tokens))
                   = IF from = 1 THEN result.nodes[1] ELSE result.nodes[1].value

\* The call parameter list that starts at i (after `(` or `,`): the first
\* token of the first positional item that follows a keyword item, or 0.
\* Items are name = number, number, name, and operator number.
RECURSIVE PositionalAfterKeyword(_, _)
PositionalAfterKeyword(i, keyword_seen) ==
    LET keyword == TypeAt(i) = "Alphanumeric" /\ TypeAt(i + 1) = "Assign"
                   /\ TypeAt(i + 2) = "Number"
        last == CASE keyword -> i + 2
                  [] ~keyword /\ TypeAt(i) \in {"Alphanumeric", "Number"} -> i
                  [] TypeAt(i) \in UNARY_OPERATOR_TOKENS /\ TypeAt(i + 1) = "Number" -> i + 1
                  [] OTHER -> 0
    IN  IF last = 0
        THEN 0
        ELSE IF ~keyword /\ keyword_seen
        THEN i
        ELSE IF TypeAt(last + 1) = "Comma"
        THEN PositionalAfterKeyword(last + 2, keyword_seen \/ keyword)
        ELSE 0

\* where the parameters of a call  name ( ...  at a formula start begin
CallParameterStarts ==
    {from + 2 : from \in {f \in FormulaStarts :
                            TypeAt(f) = "Alphanumeric" /\ TypeAt(f + 1) = "LPar"}}

\* C10 as stated: a positional parameter after a keyword parameter makes the
\* parse fail with "Positional argument follows keyword argument" at the
\* one-based position of the first token of that positional parameter.
C10_PositionalAfterKeyword ==
    \A start \in CallParameterStarts :
        (Done /\ PositionalAfterKeyword(start, FALSE) # 0)
            => printed =
                   <<SyntaxError("Positional argument follows keyword argument", {},
                                 tokens[PositionalAfterKeyword(start, FALSE)].line + 1,
                                 tokens[PositionalAfterKeyword(start, FALSE)].start + 1)>>

(***************************************************************************)
(* Call parameter lists as the grammar reads them: items are name = leaf   *)
(* (keyword), and the bare formulas leaf and operator leaf (positional),   *)
(* separated by commas and closed by `)`.                                  *)
(***************************************************************************)
IsKeywordItem(i) ==
    TypeAt(i) = "Alphanumeric" /\ TypeAt(i + 1) = "Assign" /\ TypeAt(i + 2) \in LeafTypes

\* the last token of the item that starts at i, or 0 when no item starts there
ItemEnd(i) ==
    CASE IsKeywordItem(i) -> i + 2
      [] ~IsKeywordItem(i) /\ TypeAt(i) \in LeafTypes -> i
      [] TypeAt(i) \in UNARY_OPERATOR_TOKENS /\ TypeAt(i + 1) \in LeafTypes -> i + 1
      [] OTHER -> 0

\* the Parameter the item at i stands for
CallItem(i) ==
    CASE IsKeywordItem(i) ->
             [parameter |-> "Calling", name |-> <<tokens[i].value>>,
              value |-> Leaf(tokens[i + 2])]
      [] ~IsKeywordItem(i) /\ TypeAt(i) \in LeafTypes ->
             [parameter |-> "Calling", name |-> <<>>, value |-> Leaf(tokens[i])]
      [] OTHER ->
             [parameter |-> "Calling", name |-> <<>>,
              value |-> [node |-> "UnaryOperator", operator |-> TypeAt(i),
                         operand |-> Leaf(tokens[i + 1]), side |-> "Left"]]

\* where the items of  item , item , ...  start, reading from i
RECURSIVE ItemStarts(_)
ItemStarts(i) ==
    IF ItemEnd(i) = 0
    THEN <<>>
    ELSE <<i>> \o (IF TypeAt(ItemEnd(i) + 1) = "Comma"
                   THEN ItemStarts(ItemEnd(i) + 2)
                   ELSE <<>>)

\* the token after the items read from i
ListEnd(i) ==
    IF ItemStarts(i) = <<>>
    THEN i
    ELSE ItemEnd(ItemStarts(i)[Len(ItemStarts(i))]) + 1

\* name ( item , ... ) is the whole formula: the list read from i is closed
\* by the `)` that ends the input (before an optional terminator)
ListClosed(i) ==
    /\ TypeAt(ListEnd(i)) = "RPar"
    /\ ListEnd(i) = LastOfInput(tokens)

ExpectedCall(i) ==
    [node |-> "Call", callee |-> Leaf(tokens[i - 2]),
     parameters |-> [k \in 1..Len(ItemStarts(i)) |-> CallItem(ItemStarts(i)[k])]]

\* the formula of the only statement: the statement, or the value it declares
FormulaOf(n) == IF n.node = "VariableDeclaration" THEN n.value ELSE n

\* C11 as stated: in a Call parameter list every name = formula item is a
\* keyword parameter and every bare formula, also one that starts with an
\* identifier, is a positional parameter whose value is that formula.
C11_KeywordOrPositional ==
    \A start \in CallParameterStarts :
        (Done /\ ListClosed(start) /\ PositionalAfterKeyword(start, FALSE) = 0)
            => /\ Len(result.nodes) = 1
               /\ FormulaOf(result.nodes[1]) = ExpectedCall(start)

(***************************************************************************)
(* Member chains as the grammar reads them: segments joined by `.`, a      *)
(* segment being an identifier or a call  name ( item , ... )  whose items *)
(* are keyword items or positional items that start with no identifier,    *)
(* the positional ones first.                                              *)
(***************************************************************************)
ItemsInOrder(i) ==
    \A k, l \in 1..Len(ItemStarts(i)) :
        /\ (IsKeywordItem(ItemStarts(i)[k]) \/ TypeAt(ItemStarts(i)[k]) # "Alphanumeric")
        /\ (k < l /\ IsKeywordItem(ItemStarts(i)[k])) => IsKeywordItem(ItemStarts(i)[l])

\* the last token of the segment that starts at i, or 0
SegmentEnd(i) ==
    CASE TypeAt(i) # "Alphanumeric" -> 0
      [] TypeAt(i) = "Alphanumeric" /\ TypeAt(i + 1) # "LPar" -> i
      [] OTHER -> IF TypeAt(ListEnd(i + 2)) = "RPar" /\ ItemsInOrder(i + 2)
                  THEN ListEnd(i + 2)
                  ELSE 0

SegmentNode(i) ==
    IF TypeAt(i + 1) = "LPar" THEN ExpectedCall(i + 2) ELSE Leaf(tokens[i])

\* the last token of the chain that starts at i, or 0 when it is no chain
RECURSIVE ChainEnd(_)
ChainEnd(i) ==
    IF SegmentEnd(i) = 0
    THEN 0
    ELSE IF TypeAt(SegmentEnd(i) + 1) = "Dot"
    THEN ChainEnd(SegmentEnd(i) + 2)
    ELSE SegmentEnd(i)

\* segment . (rest of the chain)
RECURSIVE MemberTree(_)
MemberTree(i) ==
    IF TypeAt(SegmentEnd(i) + 1) = "Dot"
    THEN [node |-> "Member", left |-> SegmentNode(i),
          right |-> MemberTree(SegmentEnd(i) + 2)]
    ELSE SegmentNode(i)

\* C12: a member chain is built right-recursively: a.b.c parses to
\* Member(Object a, Member(Object b, Object c)); the left child of every
\* Member node is the Object or Call of the one segment before the dot and
\* the right child is the parse of the whole rest of the chain.
C12_RightRecursive ==
    /\ \A i \in 1..Len(root) :
           \A n \in Nodes(root[i]) :
               n.node = "Member" => n.left.node \in {"Object", "Call"}
    /\ \A from \in FormulaStarts :
           (Done /\ ChainEnd(from) # 0 /\ ChainEnd(from) = LastOfInput(tokens))
               => /\ Len(result.nodes) = 1
                  /\ FormulaOf(result.nodes[1]) = MemberTree(from)

\* a . b . c parsed to Member(a, Member(b, c))
C12_Witness ==
    /\ Done
    /\ TypesOf(tokens) = <<"Alphanumeric", "Dot", "Alphanumeric", "Dot", "Alphanumeric">>
    /\ result.nodes =
           <<[node |-> "Member", left |-> Leaf(tokens[1]),
              right |-> [node |-> "Member", left |-> Leaf(tokens[3]),
                         right |-> Leaf(tokens[5])]]>>

\* the parse succeeded: no diagnostic, a Body with the statements
Accepted == Done /\ printed = <<>> /\ result.kind = "Ok" /\ result.nodes # <<>>

InParenthesis(i) ==
    /\ \E l \in 1..(i - 1) : TypeAt(l) = "LPar"
    /\ \E r \in (i + 1)..Len(tokens) : TypeAt(r) = "RPar"

\* a `,` right before the closing `)`
TrailingComma == \E i \in 1..Len(tokens) : TypeAt(i) = "Comma" /\ TypeAt(i + 1) = "RPar"

\* an item that ends and an item that starts with no `,` between them
AdjacentItems ==
    \E i \in 1..Len(tokens) :
        /\ InParenthesis(i) /\ InParenthesis(i + 1)
        /\ TypeAt(i) \in LeafTypes /\ TypeAt(i + 1) \in LeafTypes

\* C13 as stated: every parameter list the parser accepts is empty or
\* item (, item)*: no two items without a `,` between them, and no `,`
\* right before the `)`.
C13_CommaSeparated == Accepted => (~TrailingComma /\ ~AdjacentItems)

\* The parser of a statement  name ( ...  when parse_identifiers has moved
\* onto the `(`, and when parse_parameters_in_parenthesis has moved past it.
AtCallParenthesis ==
    move_if_next_token_is(move_position_back(move_position(Self)), {"LPar"}).self

AtCallParameters == move_position(AtCallParenthesis)

\* the `)` that closes the list read from i: after the items, or after one
\* more `,` when there are items; 0 when the list is not closed
ClosingParenthesis(i) ==
    CASE TypeAt(ListEnd(i)) = "RPar" -> ListEnd(i)
      [] ItemStarts(i) # <<>> /\ TypeAt(ListEnd(i)) = "Comma"
         /\ TypeAt(ListEnd(i) + 1) = "RPar" -> ListEnd(i) + 1
      [] OTHER -> 0

\* C17: when parse_parameters returns successfully the cursor is on the
\* token right before the first token that is not part of the list, so for
\* a list closed by `)` parse_parameters_in_parenthesis returns with the
\* cursor on that `)`: seen after a statement that is a call or a function
\* declaration without return type, and on the two functions themselves.
C17_CursorOnClosingParenthesis ==
    /\ (/\ pc = "require_token"
        /\ Len(root) = 1
        /\ \/ FormulaOf(root[1]).node = "Call"
           \/ (root[1].node = "FunctionDeclaration" /\ root[1].datatype = None))
           => /\ TypeAt(parser_position + 1) = "RPar"
              /\ \A i \in 1..parser_position : TypeAt(i) # "RPar"
    /\ (/\ pc = "parse_expression"
        /\ parser_position = 0
        /\ TypeAt(1) = "Alphanumeric"
        /\ TypeAt(2) = "LPar"
        /\ ClosingParenthesis(3) # 0
        /\ is_ok(parse_parameters(AtCallParameters, "Call")))
           => /\ parse_parameters(AtCallParameters, "Call").self.parser_position + 1
                     = ClosingParenthesis(3) - 1
              /\ is_ok(parse_parameters_in_parenthesis(AtCallParenthesis, "Call"))
              /\ parse_parameters_in_parenthesis(AtCallParenthesis, "Call").self.parser_position
                     + 1 = ClosingParenthesis(3)

\* a call with two parameters was parsed and the cursor is on its `)`
C17_Witness ==
    /\ pc = "require_token"
    /\ Len(root) = 1
    /\ root[1].node = "Call"
    /\ Len(root[1].parameters) = 2
    /\ TypeAt(parser_position + 1) = "RPar"

\* the diagnostic names the one-based place of a token of the input
AtToken(err) ==
    \E i \in 1..Len(tokens) :
        err.line = tokens[i].line + 1 /\ err.position = tokens[i].start + 1

\* C18 as stated: every source position reported in a diagnostic is
\* one-based, (line+1, start+1) of some token of the input, for every kind
\* of syntax error (the FATAL diagnostic reports no position).
C18_OneBasedPositions ==
    Failed => \A k \in 1..Len(printed) : printed[k] # FatalError => AtToken(printed[k])

\* what is left to do: the tokens after the cursor, then the steps of the
\* current pass of the statement loop
Rank ==
    CASE pc = "parse_expression" -> 3
      [] pc = "require_token" -> 2
      [] pc = "move_if_position_is_movable" -> 1
      [] OTHER -> 0

Variant == 4 * (Len(tokens) - parser_position) + Rank

\* the guard of one of the steps of the statement loop holds
CanStep ==
    CASE pc = "parse_expression" ->
             is_ok(parse_expression(Self)) \/ is_err(parse_expression(Self))
      [] pc = "require_token" ->
             \/ ~is_position_movable(Self)
             \/ is_ok(require_token(move_position(Self), {"ExpressionEnd"}))
             \/ is_err(require_token(move_position(Self), {"ExpressionEnd"}))
      [] pc = "move_if_position_is_movable" ->
             move_if_position_is_movable(Self).moved \in BOOLEAN
      [] OTHER -> FALSE

\* C19: parse terminates on every finite token sequence: until it returns
\* there is a next step, every step lowers a natural number (the tokens
\* after the cursor, then the steps left in the pass), the cursor never goes
\* back from one step to the next and every pass of the statement loop moves
\* it forward (there are always fewer statements parsed than tokens
\* passed), and the loop ends with no tokens left, with no expression, or
\* on the first error.
C19_Terminates ==
    /\ [][Variant' < Variant /\ parser_position' >= parser_position]_vars
    /\ [](Variant >= 0)
    /\ [](~Done => CanStep)
    /\ []((pc = "parse_expression" /\ root # <<>>) => Len(root) < parser_position)
    /\ [](Len(printed) <= 1 /\ (printed # <<>> => Done))

\* two passes of the statement loop, then the return
C19_Witness == Done /\ Len(result.nodes) = 2 /\ parser_position + 1 = Len(tokens)

\* the chain that starts at i goes on to a `.` that is the last token
RECURSIVE EndsWithDot(_)
EndsWithDot(i) ==
    /\ SegmentEnd(i) # 0
    /\ TypeAt(SegmentEnd(i) + 1) = "Dot"
    /\ \/ SegmentEnd(i) + 1 = Len(tokens)
       \/ EndsWithDot(SegmentEnd(i) + 2)

\* C20: when a `.` that follows a segment of a member chain is the last
\* token of the input, the parse fails with "Children expected" and no
\* Member node (no node at all) is produced.
C20_ChildrenExpected ==
    \A from \in FormulaStarts :
        (Done /\ EndsWithDot(from))
            => /\ result = BodyNode(<<>>)
               /\ Len(printed) = 1
               /\ printed[1].message = "Children expected"

\* a . b .  was rejected
C20_Witness ==
    /\ Done
    /\ TypesOf(tokens) = <<"Alphanumeric", "Dot", "Alphanumeric", "Dot">>
    /\ EndsWithDot(1)
    /\ result = BodyNode(<<>>)
    /\ printed # <<>>
    /\ printed[1].message = "Children expected"

(***************************************************************************)
(* A formula  u1 ... uk x post [op chain]: prefix operators that do not    *)
(* prohibit one another, a literal or identifier x, a unary operator post  *)
(* right after it, and then the end or a binary operator and a chain.      *)
(***************************************************************************)
PostfixAt(from) == PrefixEnd(from) + 2

IsPostfixFormula(from) ==
    /\ Reused(from) = {}
    /\ TypeAt(PrefixEnd(from) + 1) \in LeafTypes
    /\ TypeAt(PostfixAt(from)) \in UNARY_OPERATOR_TOKENS
    /\ \/ PostfixAt(from) = LastOfInput(tokens)
       \/ /\ TypeAt(PostfixAt(from) + 1) \in BINARY_OPERATOR_TOKENS
          /\ IsChain(tokens, PostfixAt(from) + 2, LastOfInput(tokens))

\* the prefix chain prohibits the operator after the primand
PostfixProhibited(from) ==
    \E i \in from..PrefixEnd(from) : Conflict(TypeAt(i), TypeAt(PostfixAt(from)))

\* the node under the Left-side UnaryOperator nodes at n
RECURSIVE LeftOperand(_)
LeftOperand(n) ==
    IF n.node = "UnaryOperator" /\ n.side = "Left" THEN LeftOperand(n.operand) ELSE n

\* n is x with the prefix operators from..PrefixEnd(from) around it
IsPrefixed(n, from) ==
    /\ Len(LeftChain(n)) = PrefixEnd(from) - from + 1
    /\ {LeftChain(n)[k] : k \in 1..Len(LeftChain(n))}
           = {TypeAt(i) : i \in from..PrefixEnd(from)}
    /\ LeftOperand(n) = Leaf(tokens[PrefixEnd(from) + 1])

\* n is the prefixed x inside exactly one UnaryOperator post with side = Right
IsPostfixed(n, from) ==
    /\ n.node = "UnaryOperator"
    /\ n.side = "Right"
    /\ n.operator = TypeAt(PostfixAt(from))
    /\ IsPrefixed(n.operand, from)

\* C21: a unary operator right after a primand is checked against the
\* operators prohibited by the prefix chain of that formula: when prohibited
\* the parse fails with "operator is already used"; otherwise the primand
\* with its prefix operators is wrapped in exactly one UnaryOperator with
\* side = Right, and a binary operator after it takes that node as its left
\* operand.
C21_PostfixOperator ==
    \A from \in FormulaStarts :
        (Done /\ IsPostfixFormula(from))
            => IF PostfixProhibited(from)
               THEN /\ result = BodyNode(<<>>)
                    /\ Len(printed) = 1
                    /\ printed[1].message = "operator is already used"
                    /\ printed[1].expected = {TypeAt(PostfixAt(from))}
               ELSE /\ printed = <<>>
                    /\ Len(result.nodes) = 1
                    /\ IF PostfixAt(from) = LastOfInput(tokens)
                       THEN IsPostfixed(FormulaOf(result.nodes[1]), from)
                       ELSE /\ FormulaOf(result.nodes[1]).node = "BinaryOperator"
                            /\ FormulaOf(result.nodes[1]).operator
                                   = TypeAt(PostfixAt(from) + 1)
                            /\ IsPostfixed(FormulaOf(result.nodes[1]).left_operand, from)
                            /\ FormulaOf(result.nodes[1]).right_operand
                                   = RightNested(tokens, PostfixAt(from) + 2,
                                                 LastOfInput(tokens))

\* ! x ++ + 1 parsed to BinaryOperator(+, UnaryOperator(++, !x, Right), 1)
C21_Witness ==
    /\ Done
    /\ TypesOf(tokens) = <<"Not", "Alphanumeric", "Increment", "Plus", "Number">>
    /\ IsPostfixFormula(1)
    /\ ~PostfixProhibited(1)
    /\ Len(result.nodes) = 1
    /\ result.nodes[1].node = "BinaryOperator"
    /\ result.nodes[1].left_operand.side = "Right"
    /\ result.nodes[1].left_operand.operand.operator = "Not"

\* C22: while any token vector is parsed the cursor stays within
\* 0..Len(tokens) and the thread never unwinds: move_position is never
\* called with the cursor at the end, move_position_back never with the
\* cursor at 0 or onto a place without a token, so no unwrap() of the cursor
\* primitives fails and the unsigned cursor never goes below zero.
C22_CursorInRange ==
    /\ parser_position \in 0..Len(tokens)
    /\ result.kind # "Panic"
    /\ (pc = "parse_expression" => ~parse_expression(Self).self.panicked)

\* function b ( ) : after the `)` the cursor went past the last token and
\* came back onto it
C22_Witness ==
    /\ Done
    /\ TypesOf(tokens) = <<"Function", "Alphanumeric", "LPar", "RPar">>
    /\ result.kind = "Ok"
    /\ Len(result.nodes) = 1
    /\ parser_position + 1 = Len(tokens)

\* the Object node carries the text of an identifier of the input
FromIdentifier(n) ==
    \E i \in 1..Len(tokens) : TypeAt(i) = "Alphanumeric" /\ tokens[i].value = n.name

\* C23 as stated: every Object node of a successfully parsed tree is built
\* from an Alphanumeric token; the token after a `.` of a member chain is an
\* identifier, so a chain such as a.5 or a.; is not accepted.
C23_ObjectsAreIdentifiers ==
    Accepted
        => /\ \A k \in 1..Len(result.nodes) :
                  \A n \in Nodes(result.nodes[k]) :
                      n.node = "Object" => FromIdentifier(n)
           /\ \A i \in 1..Len(tokens) :
                  TypeAt(i) = "Dot" => TypeAt(i + 1) = "Alphanumeric"

(***************************************************************************)
(* The cursor primitives of Parser on their own: a caller that holds a     *)
(* Parser and calls them one after another, in any order.  pc names the    *)
(* primitive called last and result is what it returned.                   *)
(***************************************************************************)
PrimitiveTypes == {"Alphanumeric", "Number", "Dot", "ExpressionEnd"}

PrimitiveInputs == SeqsUpTo(PrimitiveTypes, MaxLen)

TypeSets == {{"Alphanumeric"}, {"ExpressionEnd"}, {"Dot", "Number"}}

Returned(kind, token, flag, err, arg) ==
    [kind |-> kind, token |-> token, flag |-> flag, err |-> err, arg |-> arg]

PrimitivesInit ==
    /\ \E types \in PrimitiveInputs : \E line \in 0..MaxLine : tokens = layout(types, line)
    /\ parser_position = 0
    /\ context = [line |-> 0, position |-> 0]
    /\ root = <<>>
    /\ pc = "new"
    /\ result = Returned("Unit", NoToken, FALSE, NoError, {})
    /\ printed = <<>>

\* the call returns, or the thread unwinds at a failed unwrap()
Call(name, self, returned) ==
    /\ IF self.panicked
       THEN /\ pc' = "panic"
            /\ result' = Returned("Panic", NoToken, FALSE, NoError, {})
            /\ UNCHANGED <<parser_position, context>>
       ELSE /\ pc' = name
            /\ result' = returned
            /\ parser_position' = self.parser_position
            /\ context' = self.context
    /\ UNCHANGED <<tokens, root, printed>>

CallMovePosition ==
    /\ pc # "panic"
    /\ Call("move_position", move_position(Self),
         Returned("Token",
                  IF is_ok(get_current_token(Self))
                  THEN get_current_token(Self).value
                  ELSE NoToken,
                  FALSE, NoError, {}))

CallMovePositionBack ==
    /\ pc # "panic"
    /\ Call("move_position_back", move_position_back(Self),
         Returned("Unit", NoToken, FALSE, NoError, {}))

CallMoveIfPositionIsMovable ==
    /\ pc # "panic"
    /\ Call("move_if_position_is_movable", move_if_position_is_movable(Self).self,
         Returned("Bool", NoToken, move_if_position_is_movable(Self).moved, NoError, {}))

CallMoveIfNextTokenIs ==
    /\ pc # "panic"
    /\ \E desired_types \in TypeSets :
        Call("move_if_next_token_is", move_if_next_token_is(Self, desired_types).self,
             Returned("Bool", NoToken, move_if_next_token_is(Self, desired_types).moved,
                      NoError, desired_types))

CallRequireToken ==
    /\ pc # "panic"
    /\ \E expected_tokens \in TypeSets :
        Call("require_token", require_token(Self, expected_tokens).self,
             IF is_ok(require_token(Self, expected_tokens))
             THEN Returned("Ok", require_token(Self, expected_tokens).value, FALSE,
                           NoError, expected_tokens)
             ELSE Returned("Err", NoToken, FALSE,
                           require_token(Self, expected_tokens).err, expected_tokens))

PrimitivesNext ==
    \/ CallMovePosition
    \/ CallMovePositionBack
    \/ CallMoveIfPositionIsMovable
    \/ CallMoveIfNextTokenIs
    \/ CallRequireToken

Primitives == PrimitivesInit /\ [][PrimitivesNext]_vars

ContextOf(token) == [line |-> token.line + 1, position |-> token.start + 1]

\* C14 as stated: move_position returns the token that was at the cursor,
\* moves the cursor forward by exactly one, and sets Context to the one-based
\* place of the new current token, the one at the cursor after the move.
C14_ContextOfNewToken ==
    [][(pc' = "move_position" /\ result'.kind = "Token")
       => /\ result'.token = tokens[parser_position + 1]
          /\ parser_position' = parser_position + 1
          /\ (parser_position' < Len(tokens)
                 => context' = ContextOf(tokens[parser_position' + 1]))]_vars

\* C15 as stated: when the current token is not of an expected type,
\* require_token still returns that token to its caller.
C15_ReturnsWrongToken ==
    [][(/\ pc' = "require_token"
        /\ parser_position < Len(tokens)
        /\ tokens[parser_position + 1].token_type \notin result'.arg)
       => (result'.kind = "Ok" /\ result'.token = tokens[parser_position + 1])]_vars

\* C15 amended: require_token returns the current token when its type is in
\* the expected set; when it is not, or when there is no current token, it
\* returns an error, the diagnostic naming the expected set and the position
\* held by Context, and no token.  The cursor and Context stay as they were.
C15_ErrorOnWrongToken ==
    [][pc' = "require_token"
       => /\ parser_position' = parser_position
          /\ context' = context
          /\ IF parser_position < Len(tokens)
                 /\ tokens[parser_position + 1].token_type \in result'.arg
             THEN result'.kind = "Ok" /\ result'.token = tokens[parser_position + 1]
             ELSE /\ result'.kind = "Err"
                  /\ result'.token = NoToken
                  /\ result'.err = SyntaxError("expected", result'.arg,
                                               context.line, context.position)]_vars

\* require_token was called on a token of a type that was not expected
C15_Witness ==
    /\ pc = "require_token"
    /\ result.kind = "Err"
    /\ parser_position < Len(tokens)
    /\ tokens[parser_position + 1].token_type \notin result.arg

\* C16: move_if_next_token_is returns true with the cursor advanced by
\* exactly one iff a next token exists and its type is in the given set;
\* otherwise it returns false and the cursor is where it was.
C16_MovesIffNextTokenIs ==
    [][pc' = "move_if_next_token_is"
       => IF parser_position + 1 < Len(tokens)
             /\ tokens[parser_position + 2].token_type \in result'.arg
          THEN result'.flag /\ parser_position' = parser_position + 1
          ELSE ~result'.flag /\ parser_position' = parser_position]_vars

\* a next token of another type was looked at and the cursor is back
C16_Witness ==
    /\ pc = "move_if_next_token_is"
    /\ ~result.flag
    /\ parser_position + 1 < Len(tokens)
    /\ tokens[parser_position + 2].token_type \notin result.arg

====
